---- MODULE Spec2Model ----
(***************************************************************************)
(* Model of testfiles/bubblesort.py: read_numbers (regular-expression      *)
(* extraction and int/float conversion), bubble_sort (in-place sort with   *)
(* early exit) and main (validation, printing, output file).               *)
(*                                                                         *)
(* A text is a sequence of one-character strings.  A numeric value is a    *)
(* record [kind, m, e] standing for the number m / 10^e, kind being the    *)
(* Python type ("int" or "float"); floats are kept normalised (no trailing *)
(* zero in the fraction), which is what float() does to "5.0" and "5.00".  *)
(* Every decimal of the modelled texts has far fewer than the 15          *)
(* significant digits that a double carries through float() and repr(), so *)
(* the decimal stands for the double exactly; -0.0 is the same value as    *)
(* 0.0 here, the two being equal under > and both rendered through int().  *)
(***************************************************************************)
EXTENDS Integers, Sequences, FiniteSets, TLC

\* ------------------------------------------------------------------ bounds
MaxText == 5    \* longest file content, in characters
MaxLen == 4     \* longest sequence handed to bubble_sort directly
MaxCalls == 2   \* bubble_sort applied at most this many times in a row
MaxZeros == 5   \* most zeros leading the fraction of a small-fraction text

\* --------------------------------------------------------------- alphabets
Digits == {"0", "2", "5"}
Signs == {"+", "-"}
Alphabet == Digits \cup Signs \cup {".", " "}

DigitVal(c) ==
  CASE c = "0" -> 0 [] c = "1" -> 1 [] c = "2" -> 2 [] c = "3" -> 3
    [] c = "4" -> 4 [] c = "5" -> 5 [] c = "6" -> 6 [] c = "7" -> 7
    [] c = "8" -> 8 [] c = "9" -> 9

DigitChar(d) == <<"0", "1", "2", "3", "4", "5", "6", "7", "8", "9">>[d + 1]

RECURSIVE Pow10(_)
Pow10(k) == IF k = 0 THEN 1 ELSE 10 * Pow10(k - 1)

Abs(x) == IF x < 0 THEN -x ELSE x

BSeq(S, k) == UNION {[1..len -> S] : len \in 0..k}

\* Contents of the input file: every short text, and the texts made of one
\* token 0.0...0d or 0.0...0dd, signed or not, whose values go below the
\* magnitude at which str() of a float changes notation.
ShortTexts == BSeq(Alphabet, MaxText)

RECURSIVE Zeros(_)
Zeros(k) == IF k = 0 THEN << >> ELSE <<"0">> \o Zeros(k - 1)

SmallFractions ==
  {sg \o <<"0", ".">> \o Zeros(k) \o ds :
     sg \in {<< >>, <<"-">>}, k \in 0..MaxZeros,
     ds \in {d \in BSeq(Digits, 2) : d # << >>}}

Texts == ShortTexts \cup SmallFractions

\* ------------------------------------------------------------ read_numbers
\* End (exclusive) of the greedy run of digits that starts at position p.
RECURSIVE DigitRun(_, _)
DigitRun(text, p) ==
  IF p <= Len(text) /\ text[p] \in Digits THEN DigitRun(text, p + 1) ELSE p

\* Mutant of MatchAt: the optional fraction group is left out of the pattern.
MatchAt_NoFraction(text, p) ==
  LET s == IF p <= Len(text) /\ text[p] \in Signs THEN p + 1 ELSE p
      d == DigitRun(text, s)
  IN  IF d = s THEN 0 ELSE d

\* re: [+-]?\d+(?:\.\d+)?  tried at position p.  The result is the end
\* (exclusive) of the match, or 0 when the pattern does not match at p.
\* The sign is optional; when the sign character is not followed by a digit
\* the engine retries without it and \d+ fails on the sign character.
MatchAt(text, p) ==
  LET s == IF p <= Len(text) /\ text[p] \in Signs THEN p + 1 ELSE p
      d == DigitRun(text, s)
      f == IF d <= Len(text) /\ text[d] = "." THEN DigitRun(text, d + 1) ELSE d
  IN  IF d = s THEN 0
      ELSE IF f > d + 1 THEN f
      ELSE d

\* re.findall: scan left to right, take the match at the first position
\* where there is one, resume right after it.  Each token is kept with the
\* position of its first character.
RECURSIVE FindAll(_, _)
FindAll(text, p) ==
  IF p > Len(text) THEN << >>
  ELSE LET q == MatchAt(text, p)
       IN  IF q = 0 THEN FindAll(text, p + 1)
           ELSE <<[s |-> p, t |-> SubSeq(text, p, q - 1)]>> \o FindAll(text, q)

\* Value of a string of digits, most significant first.
RECURSIVE DigitsVal(_)
DigitsVal(ds) ==
  IF ds = << >> THEN 0
  ELSE 10 * DigitsVal(SubSeq(ds, 1, Len(ds) - 1)) + DigitVal(ds[Len(ds)])

HasDot(t) == \E k \in 1..Len(t) : t[k] = "."

DotPos(t) == CHOOSE k \in 1..Len(t) : t[k] = "."

Unsigned(t) == IF t[1] \in Signs THEN Tail(t) ELSE t

SignOf(t) == IF t[1] = "-" THEN -1 ELSE 1

\* int(t)
ParseInt(t) == [kind |-> "int", m |-> SignOf(t) * DigitsVal(Unsigned(t)), e |-> 0]

\* Drop the trailing zeros of a fraction: m / 10^e with the least e.
RECURSIVE Normal(_, _)
Normal(m, e) ==
  IF e > 0 /\ m % 10 = 0 THEN Normal(m \div 10, e - 1) ELSE <<m, e>>

\* float(t)
ParseFloat(t) ==
  LET u == Unsigned(t)
      d == DotPos(u)
      ip == SubSeq(u, 1, d - 1)
      fp == SubSeq(u, d + 1, Len(u))
      ne == Normal(DigitsVal(ip \o fp), Len(fp))
  IN  [kind |-> "float", m |-> SignOf(t) * ne[1], e |-> ne[2]]

ParseToken(t) == IF HasDot(t) THEN ParseFloat(t) ELSE ParseInt(t)

\* [float(t) if "." in t else int(t) for t in tokens]
ReadValues(toks) == [k \in 1..Len(toks) |-> ParseToken(toks[k].t)]

\* ------------------------------------------------------------------ values
\* arr[j] > arr[j + 1]: numeric comparison, exact across int and float.
Gt(a, b) == a.m * Pow10(b.e) > b.m * Pow10(a.e)

NumEq(a, b) == a.m * Pow10(b.e) = b.m * Pow10(a.e)

\* ------------------------------------------------------------------ render
\* Decimal digits of a natural number.
RECURSIVE NatStr(_)
NatStr(v) ==
  IF v < 10 THEN <<DigitChar(v)>> ELSE NatStr(v \div 10) \o <<DigitChar(v % 10)>>

\* str(i) for an integer i
IntStr(v) == IF v < 0 THEN <<"-">> \o NatStr(-v) ELSE NatStr(v)

\* The k low digits of v, padded with zeros on the left.
RECURSIVE FracStr(_, _)
FracStr(v, k) ==
  IF k = 0 THEN << >> ELSE FracStr(v \div 10, k - 1) \o <<DigitChar(v % 10)>>

\* x.is_integer()
IsIntegerFloat(x) == Abs(x.m) % Pow10(x.e) = 0

\* int(x): truncation towards zero
IntOf(x) ==
  IF x.m < 0 THEN -(Abs(x.m) \div Pow10(x.e)) ELSE x.m \div Pow10(x.e)

\* The exponent of repr(): two digits at least.
ExpStr(v) == IF v < 10 THEN <<"0">> \o NatStr(v) ELSE NatStr(v)

\* str(x) for a float, which is repr(x): the shortest digits that read back
\* as x, ".0" for a whole value, positional while the decimal exponent of the
\* first digit is at least -4 and scientific (d.ddde-XX, the point left out
\* after a single digit) below.  Magnitudes of 1e16 and more, also
\* scientific, are beyond the values modelled.
FloatStr(x) ==
  LET a == Abs(x.m)
      sg == IF x.m < 0 THEN <<"-">> ELSE << >>
      ds == NatStr(a)
      ex == Len(ds) - 1 - x.e
  IN  IF x.e = 0 THEN sg \o ds \o <<".", "0">>
      ELSE IF ex < -4
      THEN sg \o <<Head(ds)>>
              \o (IF Len(ds) > 1 THEN <<".">> \o Tail(ds) ELSE << >>)
              \o <<"e", "-">> \o ExpStr(-ex)
      ELSE sg \o NatStr(a \div Pow10(x.e)) \o <<".">> \o FracStr(a % Pow10(x.e), x.e)

\* Mutant of Render: the is_integer() test is left out, floats go to str().
Render_NoIsInteger(x) ==
  IF x.kind = "int" THEN IntStr(IntOf(x)) ELSE FloatStr(x)

\* str(int(x)) if isinstance(x, int) or (isinstance(x, float) and
\* x.is_integer()) else str(x)
Render(x) ==
  IF x.kind = "int" \/ (x.kind = "float" /\ IsIntegerFloat(x))
  THEN IntStr(IntOf(x))
  ELSE FloatStr(x)

RenderAll(xs) == [k \in 1..Len(xs) |-> Render(xs[k])]

\* " ".join(out)
RECURSIVE Join(_)
Join(out) ==
  IF out = << >> THEN << >>
  ELSE IF Len(out) = 1 THEN out[1]
  ELSE out[1] \o <<" ">> \o Join(Tail(out))

\* ------------------------------------------------------------------- state
VARIABLES
  pc,         \* position of main: start, read, sort, format, write, confirm, exit
  isFile,     \* path.is_file()
  fileRead,   \* path.read_text() has been called
  text,       \* the content read from the input file
  tokens,     \* the matches of re.findall, each with its start position
  nums,       \* the list nums of main, which is the list arr of bubble_sort
  out,        \* the list out of main
  stdout,     \* the lines printed so far
  status,     \* exit status, -1 while the process runs
  raised,     \* the process ended on an exception that nothing caught
  outFile,    \* the file at out_path
  outFile0,   \* the file at out_path when the process started
  spc,        \* position of bubble_sort: idle, call, outer, inner, check, return
  n, i, j, swapped,   \* the locals of bubble_sort
  arr0,       \* history: the list as it was when bubble_sort was entered
  origin,     \* history: origin[p] is the position in arr0 of the element at p
  swaps,      \* history: swaps made by the current call
  passes,     \* history: passes of the outer loop completed by the current call
  calls       \* history: calls of bubble_sort so far

mainVars == <<pc, isFile, fileRead, text, tokens, out, stdout, status, raised,
              outFile, outFile0>>
sortVars == <<nums, spc, n, i, j, swapped, arr0, origin, swaps, passes, calls>>
vars == <<mainVars, sortVars>>

NotFoundMsg == [msg |-> "Input file not found: ", text |-> << >>]
NoNumbersMsg == [msg |-> "No numbers found in the file.", text |-> << >>]
HeaderMsg == [msg |-> "Sorted numbers:", text |-> << >>]
WrittenMsg == [msg |-> "Written to: ", text |-> << >>]
LineMsg(l) == [msg |-> "", text |-> l]

NoFile == [exists |-> FALSE, content |-> << >>]
OldFile == [exists |-> TRUE, content |-> <<"9", " ", "8">>]

\* ------------------------------------------------------------- bubble_sort
\* n = len(arr), and the first evaluation of range(n)
BubbleSortEnter ==
  /\ spc = "call"
  /\ n' = Len(nums)
  /\ i' = 0
  /\ spc' = "outer"
  /\ arr0' = nums
  /\ origin' = [k \in 1..Len(nums) |-> k]
  /\ swaps' = 0
  /\ passes' = 0
  /\ calls' = calls + 1
  /\ UNCHANGED <<mainVars, nums, j, swapped>>

\* for i in range(n): swapped = False
OuterLoop ==
  /\ spc = "outer"
  /\ IF i < n
     THEN /\ swapped' = FALSE
          /\ j' = 0
          /\ spc' = "inner"
     ELSE /\ spc' = "return"
          /\ UNCHANGED <<swapped, j>>
  /\ UNCHANGED <<mainVars, nums, n, i, arr0, origin, swaps, passes, calls>>

\* Mutant of InnerBound: the bound shrinks one position too far.
InnerBound_Short == n - i - 2

\* The bound of the inner loop: range(0, n - i - 1)
InnerBound == n - i - 1

\* Mutant of OutOfOrder: the comparison is >= instead of >.
OutOfOrder_Geq(a, k) == ~Gt(a[k + 2], a[k + 1])

\* if arr[j] > arr[j + 1]   (positions are 1-based here)
OutOfOrder(a, k) == Gt(a[k + 1], a[k + 2])

Swap(a, k) == [a EXCEPT ![k + 1] = a[k + 2], ![k + 2] = a[k + 1]]

\* for j in range(0, n - i - 1): compare and swap
InnerLoop ==
  /\ spc = "inner"
  /\ IF j < InnerBound
     THEN /\ IF OutOfOrder(nums, j)
             THEN /\ nums' = Swap(nums, j)
                  /\ origin' = Swap(origin, j)
                  /\ swapped' = TRUE
                  /\ swaps' = swaps + 1
             ELSE UNCHANGED <<nums, origin, swapped, swaps>>
          /\ j' = j + 1
          /\ UNCHANGED <<spc, passes>>
     ELSE /\ spc' = "check"
          /\ passes' = passes + 1
          /\ UNCHANGED <<nums, origin, swapped, swaps, j>>
  /\ UNCHANGED <<mainVars, n, i, arr0, calls>>

\* Mutant of CheckSwapped: the early exit is left out.
CheckSwapped_NoBreak ==
  /\ spc = "check"
  /\ spc' = "outer"
  /\ i' = i + 1
  /\ UNCHANGED <<mainVars, nums, n, j, swapped, arr0, origin, swaps, passes, calls>>

\* if not swapped: break
CheckSwapped ==
  /\ spc = "check"
  /\ IF ~swapped
     THEN /\ spc' = "return"
          /\ i' = i
     ELSE /\ spc' = "outer"
          /\ i' = i + 1
  /\ UNCHANGED <<mainVars, nums, n, j, swapped, arr0, origin, swaps, passes, calls>>

\* bubble_sort(bubble_sort(s)): the returned list is sorted again
SortAgain ==
  /\ pc = "harness"
  /\ spc = "return"
  /\ calls < MaxCalls
  /\ spc' = "call"
  /\ UNCHANGED <<mainVars, nums, n, i, j, swapped, arr0, origin, swaps, passes, calls>>

\* -------------------------------------------------------------------- main
\* Mutant of MainCheckFile: the message is printed but sys.exit(1) is left out.
MainCheckFile_NoExit ==
  /\ pc = "start"
  /\ IF ~isFile
     THEN stdout' = Append(stdout, NotFoundMsg)
     ELSE stdout' = stdout
  /\ pc' = "read"
  /\ UNCHANGED <<isFile, fileRead, text, tokens, out, status, raised, outFile,
                 outFile0, sortVars>>

\* if not path.is_file(): print(...); sys.exit(1)
MainCheckFile ==
  /\ pc = "start"
  /\ IF ~isFile
     THEN /\ stdout' = Append(stdout, NotFoundMsg)
          /\ status' = 1
          /\ pc' = "exit"
     ELSE /\ pc' = "read"
          /\ UNCHANGED <<stdout, status>>
  /\ UNCHANGED <<isFile, fileRead, text, tokens, out, raised, outFile, outFile0, sortVars>>

\* Mutant of MainRead: the test for an empty list is left out.
MainRead_NoEmptyExit ==
  /\ pc = "read"
  /\ \E tx \in Texts :
       /\ text' = tx
       /\ fileRead' = TRUE
       /\ tokens' = FindAll(tx, 1)
       /\ nums' = ReadValues(FindAll(tx, 1))
       /\ pc' = "sort"
       /\ spc' = "call"
  /\ UNCHANGED <<isFile, out, stdout, status, raised, outFile, outFile0,
                 n, i, j, swapped, arr0, origin, swaps, passes, calls>>

\* nums = read_numbers(path); if not nums: print(...); sys.exit(0)
MainRead ==
  /\ pc = "read"
  /\ \E tx \in Texts :
       LET toks == FindAll(tx, 1)
           vals == ReadValues(toks)
       IN  /\ text' = tx
           /\ fileRead' = TRUE
           /\ tokens' = toks
           /\ nums' = vals
           /\ IF vals = << >>
              THEN /\ stdout' = Append(stdout, NoNumbersMsg)
                   /\ status' = 0
                   /\ pc' = "exit"
                   /\ spc' = spc
              ELSE /\ pc' = "sort"
                   /\ spc' = "call"
                   /\ UNCHANGED <<stdout, status>>
  /\ UNCHANGED <<isFile, out, raised, outFile, outFile0,
                 n, i, j, swapped, arr0, origin, swaps, passes, calls>>

\* bubble_sort(nums) has returned; print("Sorted numbers:")
MainPrintHeader ==
  /\ pc = "sort"
  /\ spc = "return"
  /\ stdout' = Append(stdout, HeaderMsg)
  /\ pc' = "format"
  /\ UNCHANGED <<isFile, fileRead, text, tokens, out, status, raised, outFile,
                 outFile0, sortVars>>

\* out = [...]; print(" ".join(out))
MainPrintLine ==
  /\ pc = "format"
  /\ out' = RenderAll(nums)
  /\ stdout' = Append(stdout, LineMsg(Join(RenderAll(nums))))
  /\ pc' = "write"
  /\ UNCHANGED <<isFile, fileRead, text, tokens, status, raised, outFile,
                 outFile0, sortVars>>

\* Mutant of MainWrite: an error of the write is caught and ignored.
MainWrite_Swallow ==
  /\ pc = "write"
  /\ \/ outFile' = [exists |-> TRUE, content |-> Join(out)]
     \/ outFile' = outFile
  /\ pc' = "confirm"
  /\ UNCHANGED <<isFile, fileRead, text, tokens, out, stdout, status, raised,
                 outFile0, sortVars>>

\* out_path.write_text(" ".join(out)): the file is opened for writing, which
\* truncates it, then written.  Opening may fail (the file is untouched) and
\* writing may fail (the file keeps a proper prefix of the line); either
\* exception ends the process.
MainWrite ==
  /\ pc = "write"
  /\ \/ /\ outFile' = [exists |-> TRUE, content |-> Join(out)]
        /\ pc' = "confirm"
        /\ UNCHANGED <<status, raised>>
     \/ /\ outFile' = outFile
        /\ raised' = TRUE
        /\ status' = 1
        /\ pc' = "exit"
     \/ /\ \E k \in 0..(Len(Join(out)) - 1) :
             outFile' = [exists |-> TRUE, content |-> SubSeq(Join(out), 1, k)]
        /\ raised' = TRUE
        /\ status' = 1
        /\ pc' = "exit"
  /\ UNCHANGED <<isFile, fileRead, text, tokens, out, stdout, outFile0, sortVars>>

\* print(f"Written to: ..."); main returns
MainConfirm ==
  /\ pc = "confirm"
  /\ stdout' = Append(stdout, WrittenMsg)
  /\ status' = 0
  /\ pc' = "exit"
  /\ UNCHANGED <<isFile, fileRead, text, tokens, out, raised, outFile, outFile0,
                 sortVars>>

\* ---------------------------------------------------------- specifications
SortIdle ==
  /\ n = 0 /\ i = 0 /\ j = 0 /\ swapped = FALSE
  /\ arr0 = << >> /\ origin = << >> /\ swaps = 0 /\ passes = 0 /\ calls = 0

\* The process as started from the command line.
Init ==
  /\ pc = "start"
  /\ isFile \in BOOLEAN
  /\ fileRead = FALSE
  /\ text = << >>
  /\ tokens = << >>
  /\ nums = << >>
  /\ out = << >>
  /\ stdout = << >>
  /\ status = -1
  /\ raised = FALSE
  /\ outFile0 \in {NoFile, OldFile}
  /\ outFile = outFile0
  /\ spc = "idle"
  /\ SortIdle

Sort == BubbleSortEnter \/ OuterLoop \/ InnerLoop \/ CheckSwapped

Next ==
  \/ MainCheckFile
  \/ MainRead
  \/ Sort
  \/ MainPrintHeader
  \/ MainPrintLine
  \/ MainWrite
  \/ MainConfirm

Spec == Init /\ [][Next]_vars

\* bubble_sort as a function of its argument: any list of up to MaxLen
\* numbers, ints and floats mixed, equal values of both kinds included.
IntV(v) == [kind |-> "int", m |-> v, e |-> 0]
FloatV(m, e) == [kind |-> "float", m |-> m, e |-> e]
Values == {IntV(0), FloatV(0, 0), FloatV(-25, 1), IntV(3), FloatV(5, 1)}

SortInit ==
  /\ pc = "harness"
  /\ isFile = TRUE
  /\ fileRead = FALSE
  /\ text = << >>
  /\ tokens = << >>
  /\ nums \in BSeq(Values, MaxLen)
  /\ out = << >>
  /\ stdout = << >>
  /\ status = -1
  /\ raised = FALSE
  /\ outFile0 = NoFile
  /\ outFile = outFile0
  /\ spc = "call"
  /\ SortIdle

SortNext == Sort \/ SortAgain

SortSpec == SortInit /\ [][SortNext]_vars

\* The calls are run to completion.
FairSortSpec == SortSpec /\ WF_vars(SortNext)

\* ----------------------------------------------------- auxiliary predicates
\* Non-decreasing by numeric value.
Sorted(a) == \A k \in 1..(Len(a) - 1) : ~Gt(a[k], a[k + 1])

Occurrences(a, v) == Cardinality({k \in 1..Len(a) : a[k] = v})

Elements(a) == {a[k] : k \in 1..Len(a)}

\* Same elements with the same multiplicities.
IsPermutation(a, b) ==
  /\ Len(a) = Len(b)
  /\ \A v \in Elements(a) \cup Elements(b) : Occurrences(a, v) = Occurrences(b, v)

\* bubble_sort has been entered, so the history of the call is meaningful.
InCall == spc \in {"outer", "inner", "check", "return"}

\* origin tells where each element came from.
OriginFaithful ==
  /\ Len(origin) = Len(nums)
  /\ \A p \in 1..Len(nums) : origin[p] \in 1..Len(arr0) /\ nums[p] = arr0[origin[p]]

\* ------------------------------------------------------------- bubble_sort
\* C1: when bubble_sort returns, the list is a permutation of the list it
\* was given and is non-decreasing by numeric value.
C1_SortedPermutation ==
  spc = "return" => IsPermutation(nums, arr0) /\ Sorted(nums)

C1_Witness ==
  /\ pc = "harness"
  /\ spc = "return"
  /\ calls = 1
  /\ swaps >= 3
  /\ Len(nums) >= 3
  /\ \E p \in 1..(Len(nums) - 1) : nums[p] = nums[p + 1]

\* C2: at every point of a call, of two elements of equal numeric value (an
\* int and a float of the same value included) the one that was earlier in
\* the input is earlier in the list.
C2_Stable ==
  InCall =>
    /\ OriginFaithful
    /\ \A p, q \in 1..Len(nums) :
         (p < q /\ NumEq(nums[p], nums[q])) => origin[p] < origin[q]

C2_Witness ==
  /\ pc = "harness"
  /\ calls = 1
  /\ spc = "inner"
  /\ swaps >= 2
  /\ \E p, q \in 1..Len(nums) :
       /\ p < q
       /\ NumEq(nums[p], nums[q])
       /\ nums[p].kind # nums[q].kind
       /\ origin[p] # p
       /\ origin[q] # q

\* C3: a call on a list that is already non-decreasing makes no swap and
\* leaves every position as it was; sorting the result of a sort returns it
\* unchanged.
C3_Idempotent ==
  /\ (InCall /\ Sorted(arr0)) => (swaps = 0 /\ nums = arr0)
  /\ (spc = "return" /\ calls >= 2) => (swaps = 0 /\ nums = arr0)

C3_Witness ==
  /\ spc = "return"
  /\ calls = 2
  /\ Len(nums) >= 3
  /\ \E p \in 1..(Len(nums) - 1) :
       NumEq(nums[p], nums[p + 1]) /\ nums[p].kind # nums[p + 1].kind

\* C9: after k >= 1 completed passes the last k positions are non-decreasing
\* and each of them holds a value no smaller than every value before them;
\* no adjacent pair at or beyond the bound of the inner loop is out of order.
C9_PassInvariant ==
  (InCall /\ passes >= 1) =>
    /\ \A p \in (n - passes + 1)..n :
         /\ p >= 1
         /\ p < n => ~Gt(nums[p], nums[p + 1])
         /\ \A q \in 1..(n - passes) : ~Gt(nums[q], nums[p])
    /\ spc = "inner" =>
         \A p \in (InnerBound + 1)..(n - 1) : ~Gt(nums[p], nums[p + 1])

C9_Witness ==
  /\ pc = "harness"
  /\ spc = "inner"
  /\ passes = 2
  /\ n >= 4
  /\ j = 1
  /\ swapped

\* C10: a call makes at most n passes and returns; a pass without a swap is
\* followed by the return, no pass being started after it, and at the end of
\* such a pass the whole list is non-decreasing.
C10_EarlyExit ==
  /\ [](InCall => passes <= n)
  /\ []((spc = "check" /\ ~swapped) => Sorted(nums))
  /\ [][(spc = "check" /\ ~swapped) => (spc' = "return" /\ passes' = passes)]_vars
  /\ [][spc = "return" => spc' \in {"return", "call"}]_vars
  /\ [](spc = "call" => <>(spc = "return"))

C10_Witness ==
  /\ pc = "harness"
  /\ spc = "return"
  /\ ~swapped
  /\ passes >= 2
  /\ passes < n

\* -------------------------------------------------------------------- main
Printed(m) == \E k \in 1..Len(stdout) : stdout[k] = m

\* The file that a successful write of the line l leaves at out_path.
Written(l) == [exists |-> TRUE, content |-> l]

\* C4: when the input path is not a regular file, main prints the not-found
\* message and exits with status 1 having done nothing else: the file is not
\* read, bubble_sort is not called, no header is printed and the file at the
\* output path is as it was.
C4_NotFound ==
  (pc # "start" /\ ~isFile) =>
    /\ pc = "exit"
    /\ status = 1
    /\ ~raised
    /\ stdout = <<NotFoundMsg>>
    /\ ~fileRead
    /\ nums = << >>
    /\ spc = "idle"
    /\ calls = 0
    /\ outFile = outFile0

C4_Witness ==
  /\ pc = "exit"
  /\ ~isFile
  /\ status = 1
  /\ stdout = <<NotFoundMsg>>
  /\ outFile = OldFile

NumericLike == Digits \cup Signs \cup {"."}

IsRun(tx, a, b) ==
  /\ a <= b
  /\ \A k \in a..b : tx[k] \in NumericLike
  /\ a = 1 \/ tx[a - 1] \notin NumericLike
  /\ b = Len(tx) \/ tx[b + 1] \notin NumericLike

\* The pattern, read as a description of a whole string: an optional sign,
\* one or more digits, optionally a point and one or more digits.
IsToken(t) ==
  /\ t # << >>
  /\ LET u == IF t[1] \in Signs THEN Tail(t) ELSE t
     IN  /\ u # << >>
         /\ \/ \A k \in 1..Len(u) : u[k] \in Digits
            \/ \E d \in 2..(Len(u) - 1) :
                 /\ u[d] = "."
                 /\ \A k \in (1..Len(u)) \ {d} : u[k] \in Digits

\* The numeric-like substrings of tx that are tokens as a whole, in order.
RECURSIVE WholeTokens(_, _)
WholeTokens(tx, a) ==
  IF a > Len(tx) THEN << >>
  ELSE IF \E b \in a..Len(tx) : IsRun(tx, a, b)
  THEN LET b == CHOOSE b \in a..Len(tx) : IsRun(tx, a, b)
       IN  (IF IsToken(SubSeq(tx, a, b)) THEN <<SubSeq(tx, a, b)>> ELSE << >>)
             \o WholeTokens(tx, b + 1)
  ELSE WholeTokens(tx, a + 1)

TokenStrings == [k \in 1..Len(tokens) |-> tokens[k].t]

\* C6 as stated: the tokens extracted are exactly the numeric-like substrings
\* that match the pattern as a whole, in text order; a numeric-like substring
\* that does not match as a whole contributes nothing.
C6_Original ==
  fileRead => TokenStrings = WholeTokens(text, 1)

TokenEnd(k) == tokens[k].s + Len(tokens[k].t) - 1

Covered(p) == \E k \in 1..Len(tokens) : tokens[k].s <= p /\ p <= TokenEnd(k)

\* C6, amended: the tokens extracted are the successive non-overlapping
\* matches of the pattern, each starting at the first position not yet
\* consumed where a match exists and extending as far as the pattern allows,
\* and the values are theirs in text order; the characters outside the
\* matches are discarded.  A numeric-like substring that is not a token as a
\* whole is not skipped, the matches inside it are returned: 5.2.5 gives 5.2
\* and 5, 5. gives 5, 5-2 gives 5 and -2.
C6_Matches ==
  fileRead =>
    /\ \A k \in 1..Len(tokens) :
         /\ tokens[k].s >= 1
         /\ TokenEnd(k) <= Len(text)
         /\ tokens[k].t = SubSeq(text, tokens[k].s, TokenEnd(k))
         /\ IsToken(tokens[k].t)
         /\ \A b \in (TokenEnd(k) + 1)..Len(text) :
              ~IsToken(SubSeq(text, tokens[k].s, b))
         /\ k < Len(tokens) => TokenEnd(k) < tokens[k + 1].s
    /\ \A p \in 1..Len(text) :
         ~Covered(p) => \A b \in p..Len(text) : ~IsToken(SubSeq(text, p, b))
    /\ Len(nums) = Len(tokens)
    /\ (pc = "sort" /\ spc = "call") =>
         \A k \in 1..Len(tokens) : nums[k] = ParseToken(tokens[k].t)
    /\ text = <<"5", ".", "2", ".", "5">> =>
         TokenStrings = << <<"5", ".", "2">>, <<"5">> >>
    /\ text = <<"5", ".">> => TokenStrings = << <<"5">> >>
    /\ text = <<"5", "-", "2">> => TokenStrings = << <<"5">>, <<"-", "2">> >>

C6_Witness ==
  /\ fileRead
  /\ pc = "sort"
  /\ spc = "call"
  /\ text = <<"5", ".", "2", ".", "5">>
  /\ nums = <<FloatV(52, 1), IntV(5)>>

\* Every digit of the fraction of a token is 0.
FracAllZero(t) == \A k \in 1..Len(t) : (k > DotPos(t)) => t[k] = "0"

\* The number that a rendered float stands for: digits with a point, or
\* digits with an optional point followed by e-XX.
HasExp(o) == \E k \in 1..Len(o) : o[k] = "e"

ReadBack(o) ==
  IF HasExp(o)
  THEN LET k == CHOOSE k \in 1..Len(o) : o[k] = "e"
           mant == SubSeq(o, 1, k - 1)
           ex == DigitsVal(SubSeq(o, k + 2, Len(o)))
           v == IF HasDot(mant) THEN ParseFloat(mant) ELSE ParseInt(mant)
           ne == Normal(Abs(v.m), v.e + ex)
       IN  [kind |-> "float", m |-> SignOf(o) * ne[1], e |-> ne[2]]
  ELSE ParseFloat(o)

C8_Order ==
  LET line == LineMsg(Join(RenderAll(nums)))
  IN  /\ (pc = "sort" \/ pc = "read" \/ pc = "start") =>
           (stdout = << >> /\ outFile = outFile0)
      /\ pc = "format" => (stdout = <<HeaderMsg>> /\ outFile = outFile0)
      /\ pc = "write" =>
           (stdout = <<HeaderMsg, line>> /\ outFile = outFile0 /\ Sorted(nums))
      /\ pc = "confirm" =>
           (stdout = <<HeaderMsg, line>> /\ outFile = Written(line.text))
      /\ (pc = "exit" /\ status = 0 /\ nums # << >>) =>
           (stdout = <<HeaderMsg, line, WrittenMsg>> /\ outFile = Written(line.text))
      /\ raised => (pc = "exit" /\ stdout = <<HeaderMsg, line>>)
      /\ Printed(WrittenMsg) => (~raised /\ outFile = Written(line.text))

C8_Witness ==
  /\ pc = "exit"
  /\ status = 0
  /\ outFile0 = OldFile
  /\ Len(nums) >= 2
  /\ swaps >= 1
  /\ stdout = <<HeaderMsg, LineMsg(outFile.content), WrittenMsg>>

====
